---- MODULE Spec2Model ----
(***************************************************************************)
(* A model of rerun: the coordinator (rerun / refresh), the polling        *)
(* scanner (scanChanges) and the control loop that owns the supervised     *)
(* child process (run).  The repository holds two versions of the program: *)
(* src/rerun.go (variant "rerun": refresh, --ignore, --no-git) and         *)
(* src/unnamed/part_000 (variant "part000": --no-run, install that fails   *)
(* on any output).  Both are modelled; variant selects the one that runs.  *)
(***************************************************************************)
EXTENDS Integers, Sequences, FiniteSets, TLC

\* The wall clock runs from 0 to MaxTime.
MaxTime == 2

(***************************************************************************)
(* Directory trees.  A tree is the sequence of its entries in the order    *)
(* filepath.Walk visits them (pre-order, lexical); an entry is its base    *)
(* name (a sequence of characters), its depth below the watch root and     *)
(* whether it is a directory.                                              *)
(***************************************************************************)
E(n, d, isdir) == [name |-> n, depth |-> d, dir |-> isdir]

N_proj == <<"p", "r", "o", "j">>
N_git  == <<".", "g", "i", "t">>
N_HEAD == <<"H", "E", "A", "D">>
N_main == <<"m", "a", "i", "n", ".", "g", "o">>
N_sub  == <<"s", "u", "b">>
N_tmp  == <<"t", "m", "p">>
N_x    == <<"x">>
N_tmp1 == <<"t", "m", "p", "1">>

\* proj/ main.go
Tree1 == << E(N_proj, 0, TRUE), E(N_main, 1, FALSE) >>
\* proj/ .git/ .git/HEAD main.go
Tree2 == << E(N_proj, 0, TRUE), E(N_git, 1, TRUE), E(N_HEAD, 2, FALSE),
            E(N_main, 1, FALSE) >>
\* proj/ sub/ sub/.git/ sub/.git/HEAD
Tree3 == << E(N_proj, 0, TRUE), E(N_sub, 1, TRUE), E(N_git, 2, TRUE),
            E(N_HEAD, 3, FALSE) >>
\* proj/ main.go sub/ sub/tmp/ sub/tmp/x
Tree4 == << E(N_proj, 0, TRUE), E(N_main, 1, FALSE), E(N_sub, 1, TRUE),
            E(N_tmp, 2, TRUE), E(N_x, 3, FALSE) >>

\* proj/ tmp1 x
Tree5 == << E(N_proj, 0, TRUE), E(N_tmp1, 1, FALSE), E(N_x, 1, FALSE) >>

\* --ignore patterns: the empty string (disabled) and the glob tmp*
P_none == << >>
P_tmp  == <<"t", "m", "p", "*">>

\* Captured output of a stage command: nothing, or one of two texts.
Outputs == {"", "e1", "e2"}

VARIABLES
    variant, do_tests, do_build, never_run, no_git, ignore, tree,
    now, mtime, dep_mtime,
    pc, ctx, idx, last, no_run, sig,
    ctlpc, relaunch, proc, steps, procs,
    stagesRun, sent, prevFail, cbInPass, modInPass, burst, pending

\* pending is history: the files written since the latest pipeline run began.
\* steps is history: what the loop has called so far on the instance it is
\* terminating.

flags == <<variant, do_tests, do_build, never_run, no_git, ignore, tree>>
env   == <<now, mtime, dep_mtime>>
mainv == <<pc, ctx, idx, last, no_run, sig>>
ctlv  == <<ctlpc, relaunch, proc, steps>>
hist  == <<stagesRun, sent, prevFail>>
passv == <<cbInPass, modInPass, burst, pending>>
vars  == <<flags, env, mainv, ctlv, procs, hist, passv>>

----------------------------------------------------------------------------
(* path.Match on a base name: * is any run of characters, ? any one        *)
(* character, anything else stands for itself.  (Character classes and     *)
(* escapes are not used by the patterns above.)                            *)
RECURSIVE Match(_, _)
Match(p, s) ==
    IF p = << >> THEN s = << >>
    ELSE IF Head(p) = "*"
         THEN \E k \in 0..Len(s) : Match(Tail(p), SubSeq(s, k + 1, Len(s)))
    ELSE IF s = << >> THEN FALSE
    ELSE IF Head(p) = "?" THEN Match(Tail(p), Tail(s))
    ELSE Head(p) = Head(s) /\ Match(Tail(p), Tail(s))

\* a is a directory that (strictly) contains entry i
Ancestor(a, i) ==
    /\ a < i
    /\ tree[a].dir
    /\ \A k \in (a + 1)..i : tree[k].depth > tree[a].depth

\* filepath.SkipDir returned for a directory: its contents are skipped.
\* Returned for a file: the rest of the containing directory is skipped.
SkipDir(i) ==
    LET d == IF tree[i].dir THEN tree[i].depth ELSE tree[i].depth - 1
        later == {j \in (i + 1)..Len(tree) : tree[j].depth <= d}
    IN  IF later = {} THEN Len(tree) + 1
        ELSE CHOOSE j \in later : \A k \in later : j <= k

\* p == filepath.Join(dir, ".git")
IsRootGit(i) == tree[i].depth = 1 /\ tree[i].name = N_git

Files == {i \in 1..Len(tree) : ~tree[i].dir}

----------------------------------------------------------------------------
Settings(v, t, b, n, g, ig, tr) ==
    [variant |-> v, do_tests |-> t, do_build |-> b, never_run |-> n,
     no_git |-> g, ignore |-> ig, tree |-> tr]

\* The pipeline in all its settings, over the smallest tree.  part_000 has
\* neither --no-git nor --ignore, rerun.go has no --no-run.
PipelineSettings ==
    {Settings("rerun", t, b, FALSE, TRUE, P_none, Tree1) : t, b \in BOOLEAN}
    \cup {Settings("part000", t, b, n, FALSE, P_none, Tree1) : t, b, n \in BOOLEAN}

\* The scanner of rerun.go with its skip rules, over the deeper trees.
ScanSettings ==
    {Settings("rerun", FALSE, FALSE, FALSE, g, ig, tr) :
        g \in BOOLEAN, ig \in {P_none, P_tmp}, tr \in {Tree2, Tree3, Tree4}}

\* The source files of the target's non-GOROOT dependencies, which lie
\* outside the directory of the target package: none, or one file.
Deps(s) ==
    IF s.tree = Tree1 /\ ~s.do_tests /\ ~s.do_build /\ ~s.never_run
    THEN {{}, {"dep.go"}}
    ELSE {{}}

\* The same scanner over a directory that holds a file whose base name
\* matches the --ignore glob.
GlobFileSettings ==
    {Settings("rerun", FALSE, FALSE, FALSE, g, P_tmp, Tree5) : g \in BOOLEAN}

FirstStage ==
    IF do_tests THEN "test" ELSE IF do_build THEN "build" ELSE "install"

InitWith(S) ==
    /\ \E s \in S :
        /\ variant = s.variant
        /\ do_tests = s.do_tests
        /\ do_build = s.do_build
        /\ never_run = s.never_run
        /\ no_git = s.no_git
        /\ ignore = s.ignore
        /\ tree = s.tree
        /\ \E D \in Deps(s) : dep_mtime = [d \in D |-> 0]
    /\ now = 0
    /\ mtime = [i \in 1..Len(tree) |-> 0]
    /\ pc = FirstStage
    /\ ctx = "initial"
    /\ idx = 0
    /\ last = 0
    /\ no_run = FALSE
    /\ sig = FALSE
    /\ ctlpc = IF never_run THEN "none" ELSE "recv"
    /\ relaunch = FALSE
    /\ proc = 0
    /\ steps = << >>
    /\ procs = << >>
    /\ stagesRun = << >>
    /\ sent = << >>
    /\ prevFail = ""
    /\ cbInPass = 0
    /\ modInPass = FALSE
    /\ burst = 0
    /\ pending = {}

Init == InitWith(PipelineSettings \cup ScanSettings \cup GlobFileSettings)

----------------------------------------------------------------------------
(* The environment: the clock, the editor, the child processes.            *)

ExitCodes == {0, 1}

Running == "running"
Zombie  == "zombie"     \* exited, not yet waited on
Reaped  == "reaped"     \* Wait has returned

Alive == {i \in 1..Len(procs) : procs[i] = Running}

InPass == ctx = "change" \/ (pc = "walk" /\ idx <= Len(tree))

Tick ==
    /\ pc # "exit"
    /\ now < MaxTime
    /\ now' = now + 1
    /\ UNCHANGED <<flags, mtime, dep_mtime, mainv, ctlv, procs, hist, passv>>

\* An editor writes file f: its mtime becomes the current time.
Modify(f) ==
    /\ pc # "exit"
    /\ mtime[f] # now
    /\ mtime' = [mtime EXCEPT ![f] = now]
    /\ modInPass' = (modInPass \/ InPass)
    /\ pending' = pending \cup {f}
    /\ UNCHANGED <<flags, now, dep_mtime, mainv, ctlv, procs, hist, cbInPass,
                   burst>>

\* An editor writes source file d of a dependency.
ModifyDep(d) ==
    /\ pc # "exit"
    /\ dep_mtime[d] # now
    /\ dep_mtime' = [dep_mtime EXCEPT ![d] = now]
    /\ modInPass' = (modInPass \/ InPass)
    /\ UNCHANGED <<flags, now, mtime, mainv, ctlv, procs, hist, cbInPass,
                   burst, pending>>

\* A child may exit at any time, of its own accord or on the interrupt.
ChildExit(i) ==
    /\ procs[i] = Running
    /\ procs' = [procs EXCEPT ![i] = Zombie]
    /\ UNCHANGED <<flags, env, mainv, ctlv, hist, passv>>

----------------------------------------------------------------------------
(* The pipeline of rerun.go: refresh.                                      *)

Stage(s, x, o, p) == [stage |-> s, exit |-> x, out |-> o, printed |-> p]

\* cmd.Run() returns an error iff the command exits non-zero
gotest(exit) == exit = 0
gobuild(exit) == exit = 0
goinstall(exit) == exit = 0

refresh_gotest ==
    /\ variant = "rerun" /\ pc = "test"
    /\ \E exit \in ExitCodes :
        /\ stagesRun' = Append(stagesRun, Stage("test", exit, "", FALSE))
        /\ IF gotest(exit)
           THEN pc' = (IF do_build THEN "build" ELSE "install") /\ sig' = FALSE
           ELSE pc' = "send" /\ sig' = FALSE
    /\ UNCHANGED <<flags, env, ctx, idx, last, no_run, ctlv, procs, sent,
                   prevFail, passv>>

refresh_gobuild ==
    /\ variant = "rerun" /\ pc = "build"
    /\ \E exit \in ExitCodes :
        /\ stagesRun' = Append(stagesRun, Stage("build", exit, "", FALSE))
        /\ IF gobuild(exit)
           THEN pc' = "install" /\ sig' = FALSE
           ELSE pc' = "send" /\ sig' = FALSE
    /\ UNCHANGED <<flags, env, ctx, idx, last, no_run, ctlv, procs, sent,
                   prevFail, passv>>

\* refresh ending in `ch <- false` whatever install returned.
refresh_goinstall_SendsFalse ==
    /\ variant = "rerun" /\ pc = "install"
    /\ \E exit \in ExitCodes, out \in Outputs :
        /\ stagesRun' = Append(stagesRun,
                               Stage("install", exit, out, ~goinstall(exit)))
        /\ pc' = "send"
        /\ sig' = FALSE
    /\ UNCHANGED <<flags, env, ctx, idx, last, no_run, ctlv, procs, sent,
                   prevFail, passv>>

refresh_goinstall ==
    /\ variant = "rerun" /\ pc = "install"
    /\ \E exit \in ExitCodes, out \in Outputs :
        /\ stagesRun' = Append(stagesRun,
                               Stage("install", exit, out, ~goinstall(exit)))
        /\ pc' = "send"
        /\ sig' = goinstall(exit)
    /\ UNCHANGED <<flags, env, ctx, idx, last, no_run, ctlv, procs, sent,
                   prevFail, passv>>

----------------------------------------------------------------------------
(* The pipeline of part_000: the body of rerun and of its scan callback.   *)

test(exit) == exit = 0

\* install(buildpath, lastError): any output at all is a failure, and is
\* printed unless it equals lastError; without output err is cmd.Run()'s.
install(exit, out, lastError) ==
    IF out # ""
    THEN [installed |-> FALSE, errorOutput |-> out, err |-> TRUE,
          printed |-> (out # lastError)]
    ELSE [installed |-> TRUE, errorOutput |-> "", err |-> (exit # 0),
          printed |-> FALSE]

\* var errorOutput string, declared right before each call of install
errorOutput == ""

rerun_test ==
    /\ variant = "part000" /\ pc = "test"
    /\ \E exit \in ExitCodes :
        /\ stagesRun' = Append(stagesRun, Stage("test", exit, "", FALSE))
        /\ IF ctx = "initial"
           THEN /\ no_run' = ~test(exit)
                /\ pc' = (IF do_build /\ test(exit) THEN "build" ELSE "install")
           ELSE /\ no_run' = no_run
                /\ pc' = (IF ~test(exit) THEN "ret"
                          ELSE IF do_build THEN "build" ELSE "install")
    /\ UNCHANGED <<flags, env, ctx, idx, last, sig, ctlv, procs, sent,
                   prevFail, passv>>

\* gobuild's result is dropped by both callers
rerun_gobuild ==
    /\ variant = "part000" /\ pc = "build"
    /\ \E exit \in ExitCodes :
        stagesRun' = Append(stagesRun, Stage("build", exit, "", FALSE))
    /\ pc' = "install"
    /\ UNCHANGED <<flags, env, ctx, idx, last, no_run, sig, ctlv, procs, sent,
                   prevFail, passv>>

\* The callers of install without the test of *never_run.
rerun_install_IgnoresNeverRun ==
    /\ variant = "part000" /\ pc = "install"
    /\ \E exit \in ExitCodes, out \in Outputs :
        LET r == install(exit, out, errorOutput)
        IN  /\ stagesRun' = Append(stagesRun,
                                   Stage("install", exit, out, r.printed))
            /\ IF (ctx = "initial" => ~no_run) /\ ~r.err
               THEN pc' = "send" /\ sig' = TRUE
               ELSE pc' = "ret" /\ sig' = FALSE
    /\ UNCHANGED <<flags, env, ctx, idx, last, no_run, ctlv, procs, sent,
                   prevFail, passv>>

rerun_install ==
    /\ variant = "part000" /\ pc = "install"
    /\ \E exit \in ExitCodes, out \in Outputs :
        LET r == install(exit, out, errorOutput)
        IN  /\ stagesRun' = Append(stagesRun,
                                   Stage("install", exit, out, r.printed))
            /\ IF (ctx = "initial" => ~no_run) /\ ~never_run /\ ~r.err
               THEN pc' = "send" /\ sig' = TRUE
               ELSE pc' = "ret" /\ sig' = FALSE
    /\ UNCHANGED <<flags, env, ctx, idx, last, no_run, ctlv, procs, sent,
                   prevFail, passv>>

----------------------------------------------------------------------------
(* The channel and the control loop of run.                                *)

\* A send that completes whether or not the loop is at its receive.
chan_send_NoRendezvous ==
    /\ pc = "send" /\ ctlpc # "none"
    /\ relaunch' = sig
    /\ sent' = Append(sent, sig)
    /\ ctlpc' = (IF ctlpc # "recv" THEN ctlpc
                 ELSE IF proc # 0 THEN "signal"
                 ELSE IF sig THEN "start" ELSE "recv")
    /\ pc' = "ret"
    /\ sig' = FALSE
    /\ steps' = << >>
    /\ UNCHANGED <<flags, env, ctx, idx, last, no_run, proc, procs, stagesRun,
                   prevFail, passv>>

\* ch <- v on the unbuffered channel: completes when the loop receives it.
chan_send ==
    /\ pc = "send" /\ ctlpc = "recv"
    /\ relaunch' = sig
    /\ sent' = Append(sent, sig)
    /\ ctlpc' = (IF proc # 0 THEN "signal" ELSE IF sig THEN "start" ELSE "recv")
    /\ pc' = "ret"
    /\ sig' = FALSE
    /\ steps' = << >>
    /\ UNCHANGED <<flags, env, ctx, idx, last, no_run, proc, procs, stagesRun,
                   prevFail, passv>>

\* A loop that kills whatever Signal returned.
run_signal_AlwaysKills ==
    /\ ctlpc = "signal"
    /\ \E err \in BOOLEAN :
        /\ procs[proc] = Reaped => err
        /\ ctlpc' = "kill"
        /\ steps' = <<IF err THEN "interrupt failed" ELSE "interrupt">>
    /\ UNCHANGED <<flags, env, mainv, relaunch, proc, procs, hist, passv>>

\* proc.Signal(os.Interrupt): fails when the process was already waited on,
\* or when the platform cannot deliver the interrupt.
run_signal ==
    /\ ctlpc = "signal"
    /\ \E err \in BOOLEAN :
        /\ procs[proc] = Reaped => err
        /\ ctlpc' = (IF err THEN "kill" ELSE "wait")
        /\ steps' = <<IF err THEN "interrupt failed" ELSE "interrupt">>
    /\ UNCHANGED <<flags, env, mainv, relaunch, proc, procs, hist, passv>>

run_kill ==
    /\ ctlpc = "kill"
    /\ procs' = [procs EXCEPT ![proc] = IF @ = Running THEN Zombie ELSE @]
    /\ ctlpc' = "wait"
    /\ steps' = Append(steps, "kill")
    /\ UNCHANGED <<flags, env, mainv, relaunch, proc, hist, passv>>

\* A Wait that does not return for a child that was waited on before.
run_wait_BlocksOnReaped ==
    /\ ctlpc = "wait"
    /\ procs[proc] = Zombie
    /\ procs' = [procs EXCEPT ![proc] = Reaped]
    /\ ctlpc' = (IF relaunch THEN "start" ELSE "recv")
    /\ steps' = << >>
    /\ UNCHANGED <<flags, env, mainv, relaunch, proc, hist, passv>>

\* A loop that goes on without waiting for the child to exit.
run_wait_NoWait ==
    /\ ctlpc = "wait"
    /\ ctlpc' = (IF relaunch THEN "start" ELSE "recv")
    /\ steps' = << >>
    /\ UNCHANGED <<flags, env, mainv, relaunch, proc, procs, hist, passv>>

\* proc.Wait() returns once the child has exited (at once, with an error,
\* when it was waited on before); then `if !relaunch { continue }`.
run_wait ==
    /\ ctlpc = "wait"
    /\ procs[proc] # Running
    /\ procs' = [procs EXCEPT ![proc] = Reaped]
    /\ ctlpc' = (IF relaunch THEN "start" ELSE "recv")
    /\ steps' = << >>
    /\ UNCHANGED <<flags, env, mainv, relaunch, proc, hist, passv>>

\* A loop that keeps the handle it had when Start fails.
run_start_KeepsHandle ==
    /\ ctlpc = "start"
    /\ \E ok \in BOOLEAN :
        IF ok
        THEN procs' = Append(procs, Running) /\ proc' = Len(procs) + 1
        ELSE procs' = procs /\ proc' = proc
    /\ ctlpc' = "recv"
    /\ UNCHANGED <<flags, env, mainv, relaunch, steps, hist, passv>>

\* cmd.Start(); proc = cmd.Process (nil when Start failed)
run_start ==
    /\ ctlpc = "start"
    /\ \E ok \in BOOLEAN :
        IF ok
        THEN procs' = Append(procs, Running) /\ proc' = Len(procs) + 1
        ELSE procs' = procs /\ proc' = 0
    /\ ctlpc' = "recv"
    /\ UNCHANGED <<flags, env, mainv, relaunch, steps, hist, passv>>

----------------------------------------------------------------------------
(* rerun after the initial pipeline run, and scanChanges.                  *)

InstallRun == {k \in 1..Len(stagesRun) : stagesRun[k].stage = "install"}

\* Whether the program took the install stage of entry e as failed.
InstallFailed(e) ==
    IF variant = "rerun" THEN ~goinstall(e.exit)
    ELSE install(e.exit, e.out, errorOutput).err

\* The output of the failed install of the run that ends, if it had one.
FailOutput ==
    IF InstallRun = {} THEN prevFail
    ELSE LET e == stagesRun[CHOOSE k \in InstallRun : TRUE]
         IN  IF InstallFailed(e) THEN e.out ELSE ""

\* dir, err := buildpathDir(buildpath): on an error rerun returns and main
\* ends the program (the goroutines with it, not the child process);
\* otherwise scanChanges starts with last := time.Now().
rerun_buildpathDir ==
    /\ pc = "ret" /\ ctx = "initial"
    /\ \E err \in BOOLEAN :
        IF err
        THEN /\ pc' = "exit"
             /\ ctlpc' = (IF ctlpc = "none" THEN "none" ELSE "dead")
             /\ UNCHANGED <<ctx, idx, last>>
        ELSE /\ pc' = "walk"
             /\ ctx' = "scan"
             /\ idx' = 1
             /\ last' = now
             /\ ctlpc' = ctlpc
    /\ no_run' = FALSE
    /\ stagesRun' = << >>
    /\ sent' = << >>
    /\ prevFail' = FailOutput
    /\ cbInPass' = 0
    /\ modInPass' = FALSE
    /\ burst' = 0
    /\ UNCHANGED <<flags, env, sig, relaunch, proc, steps, procs, pending>>

\* Skip rules that leave out the --ignore pattern.
Skipped_GitOnly(i) == no_git /\ tree[i].dir /\ IsRootGit(i)

\* The skip rules of rerun.go's walk function (part_000 has none).
Skipped(i) ==
    \/ no_git /\ tree[i].dir /\ IsRootGit(i)
    \/ ignore # P_none /\ Match(ignore, tree[i].name)

\* A test that takes an entry as old as last for changed.
Changed_NotBefore(i) == mtime[i] >= last

\* info.ModTime().After(last)
Changed(i) == mtime[i] > last

\* A callback after which last is left as it was.
LastStale == last

\* last = time.Now(), after the callback has returned
LastAfterCallback == now

\* What filepath.Walk may meet at an entry: nothing, a failed lstat (the walk
\* function is called with info == nil and the error), or, at a directory, a
\* failed read of its contents (the walk function is called with the
\* directory's info and the error, and the contents are not visited).
WalkErrors(i) ==
    {"none", "lstat"} \cup (IF tree[i].dir THEN {"readdir"} ELSE {})

\* With info == nil the walk function calls a method on it, unless it
\* returns before: rerun.go evaluates info.IsDir() when --no-git is on, else
\* returns SkipDir when the base name matches --ignore, else calls
\* info.ModTime(); part_000 calls info.ModTime() at once.
DerefsNilInfo(i) ==
    \/ variant = "part000"
    \/ no_git
    \/ ~(ignore # P_none /\ Match(ignore, tree[i].name))

\* Where the walk goes on when an entry is passed over without its contents.
SkipEntry(i) == IF tree[i].dir THEN SkipDir(i) ELSE i + 1

\* One call of the walk function, up to the call of cb.  The walk function
\* never looks at its err argument.  (No directory's mtime is written here,
\* so a directory whose contents cannot be read is never a changed entry.)
scan_visit ==
    /\ pc = "walk" /\ idx <= Len(tree)
    /\ \E werr \in WalkErrors(idx) :
        IF werr = "lstat" /\ DerefsNilInfo(idx)
        THEN \* nil pointer dereference: the program panics
             /\ pc' = "exit"
             /\ ctx' = "panic"
             /\ ctlpc' = (IF ctlpc = "none" THEN "none" ELSE "dead")
             /\ UNCHANGED <<idx, cbInPass, pending>>
        ELSE IF werr = "lstat"
        THEN /\ idx' = SkipEntry(idx)
             /\ UNCHANGED <<pc, ctx, ctlpc, cbInPass, pending>>
        ELSE IF variant = "rerun" /\ Skipped(idx)
        THEN /\ idx' = SkipDir(idx)
             /\ UNCHANGED <<pc, ctx, ctlpc, cbInPass, pending>>
        ELSE IF Changed(idx)
        THEN /\ pc' = FirstStage
             /\ ctx' = "change"
             /\ cbInPass' = cbInPass + 1
             /\ pending' = {}
             /\ idx' = idx
             /\ ctlpc' = ctlpc
        ELSE /\ idx' = (IF werr = "readdir" THEN SkipDir(idx) ELSE idx + 1)
             /\ UNCHANGED <<pc, ctx, ctlpc, cbInPass, pending>>
    /\ UNCHANGED <<flags, env, last, no_run, sig, relaunch, proc, steps, procs,
                   hist, modInPass, burst>>

\* cb has returned: last = time.Now(); return nil
cb_return ==
    /\ pc = "ret" /\ ctx = "change"
    /\ last' = LastAfterCallback
    /\ idx' = idx + 1
    /\ pc' = "walk"
    /\ ctx' = "scan"
    /\ stagesRun' = << >>
    /\ sent' = << >>
    /\ prevFail' = FailOutput
    /\ UNCHANGED <<flags, env, no_run, sig, ctlv, procs, passv>>

\* The walk is over: time.Sleep, then the next pass.
scan_sleep ==
    /\ pc = "walk" /\ idx = Len(tree) + 1
    /\ idx' = 1
    /\ cbInPass' = 0
    /\ modInPass' = FALSE
    /\ burst' = Cardinality({i \in 1..Len(tree) : mtime[i] > last})
    /\ UNCHANGED <<flags, env, pc, ctx, last, no_run, sig, ctlv, procs, hist,
                   pending>>

----------------------------------------------------------------------------
Next ==
    \/ Tick
    \/ \E f \in Files : Modify(f)
    \/ \E d \in DOMAIN dep_mtime : ModifyDep(d)
    \/ \E i \in 1..Len(procs) : ChildExit(i)
    \/ refresh_gotest
    \/ refresh_gobuild
    \/ refresh_goinstall
    \/ rerun_test
    \/ rerun_gobuild
    \/ rerun_install
    \/ chan_send
    \/ run_signal
    \/ run_kill
    \/ run_wait
    \/ run_start
    \/ rerun_buildpathDir
    \/ scan_visit
    \/ cb_return
    \/ scan_sleep

Spec == Init /\ [][Next]_vars

TypeOK ==
    /\ now \in 0..MaxTime /\ last \in 0..MaxTime
    /\ pc \in {"test", "build", "install", "send", "ret", "walk", "exit"}
    /\ ctlpc \in {"none", "recv", "signal", "kill", "wait", "start", "dead"}
    /\ proc \in 0..Len(procs)
    /\ Len(sent) <= 1 /\ Len(stagesRun) <= 3

\* The control loop is a goroutine of its own: the scheduler lets it take
\* each step it is ready to take.
LoopFairness ==
    /\ WF_vars(run_signal)
    /\ WF_vars(run_kill)
    /\ WF_vars(run_wait)
    /\ WF_vars(run_start)

LiveSpec == InitWith(PipelineSettings) /\ [][Next]_vars /\ LoopFairness

----------------------------------------------------------------------------
(* What the claims speak of.                                               *)

\* A stage passed: exit code zero and, for install, no captured output.
StagePassed(e) == e.exit = 0 /\ (e.stage = "install" => e.out = "")

StageNames == [k \in 1..Len(stagesRun) |-> stagesRun[k].stage]

EnabledStages ==
    (IF do_tests THEN <<"test">> ELSE << >>)
    \o (IF do_build THEN <<"build">> ELSE << >>)
    \o <<"install">>

RunPassed ==
    /\ StageNames = EnabledStages
    /\ \A k \in 1..Len(stagesRun) : StagePassed(stagesRun[k])

StageRank(s) == IF s = "test" THEN 1 ELSE IF s = "build" THEN 2 ELSE 3

\* C1: at most one supervised child is alive at any instant, and the control
\* loop comes to start a child only when Wait has returned for every child
\* it started before.
C1_SingleInstance ==
    /\ Cardinality(Alive) <= 1
    /\ ctlpc = "start" => \A i \in 1..Len(procs) : procs[i] = Reaped

\* C1 witness: a second child runs, the first one has been waited on.
C1_Witness ==
    /\ Len(procs) >= 2
    /\ procs[1] = Reaped
    /\ procs[Len(procs)] = Running

\* Some stage command of the run exited non-zero.
RunExitedNonZero == \E k \in 1..Len(stagesRun) : stagesRun[k].exit # 0

\* C2: a pipeline run in which the test, build or install command exited
\* non-zero ends without any RestartSignal having been sent.
C2_FailedRunSendsNothing ==
    (pc = "ret" /\ RunExitedNonZero) => sent = << >>

\* C3: within a run the stages are invoked in the order test, build, install,
\* and no stage is invoked after one that exited non-zero.
C3_OrderedStopOnFailure ==
    \A k \in 1..(Len(stagesRun) - 1) :
        /\ StageRank(stagesRun[k].stage) < StageRank(stagesRun[k + 1].stage)
        /\ stagesRun[k].exit = 0

\* The loop is handling a signal with relaunch = true.
Relaunching == relaunch /\ ctlpc \in {"signal", "kill", "wait", "start"}

\* The loop waits on a child that does not exit.
WaitingOnLiveChild == ctlpc = "wait" /\ procs[proc] = Running

\* C4: a run in which every enabled stage passed (never-run off) ends with
\* exactly one RestartSignal sent, relaunch = true; and once the loop has
\* taken such a signal, unless it waits for ever on a child that does not
\* exit, a new child is started, or the start fails, or the program ends.
C4_RestartAfterPass ==
    /\ []((pc = "ret" /\ RunPassed /\ ~never_run) => sent = <<TRUE>>)
    /\ \A n \in 0..(MaxTime + 1) :
        \/ <>[]WaitingOnLiveChild
        \/ (Relaunching /\ Len(procs) = n)
              ~> \/ Len(procs) > n /\ procs[n + 1] = Running
                 \/ Len(procs) = n /\ ctlpc = "recv" /\ proc = 0
                 \/ ctlpc = "dead"

\* C4 witness: a change-triggered run has passed and sent true, the loop has
\* handled the signal, and the child it started, not the first one, runs.
C4_Witness ==
    /\ pc = "ret" /\ ctx = "change" /\ RunPassed
    /\ sent = <<TRUE>>
    /\ ctlpc = "recv"
    /\ Len(procs) >= 2 /\ proc = Len(procs) /\ procs[proc] = Running

\* C5: with never-run no RestartSignal is sent or about to be sent and no
\* child is ever started, while every run, initial or change-triggered,
\* executes its first enabled stage and, unless the tests fail, all of them.
C5_NeverRun ==
    never_run =>
        /\ sent = << >> /\ pc # "send"
        /\ procs = << >> /\ proc = 0 /\ ctlpc = "none"
        /\ pc = "ret" =>
            /\ Len(stagesRun) >= 1
            /\ stagesRun[1].stage = EnabledStages[1]
            /\ (\A k \in 1..Len(stagesRun) :
                    stagesRun[k].stage = "test" => stagesRun[k].exit = 0)
               => StageNames = EnabledStages

\* C5 witness: never-run, a change-triggered run with tests and build has
\* passed every stage.
C5_Witness ==
    /\ never_run /\ do_tests /\ do_build
    /\ pc = "ret" /\ ctx = "change" /\ RunPassed

\* Directory a is excluded, as the walk function tells: <root>/.git when
\* --no-git is on, or a base name that matches --ignore, at any depth.
ExcludedDir(a) ==
    /\ tree[a].dir
    /\ \/ no_git /\ tree[a].depth = 1 /\ tree[a].name = N_git
       \/ ignore # P_none /\ Match(ignore, tree[a].name)

\* Directory a is excluded by its base name alone, at any depth.
ExcludedByBaseName(a) ==
    /\ tree[a].dir
    /\ \/ no_git /\ tree[a].name = N_git
       \/ ignore # P_none /\ Match(ignore, tree[a].name)

\* Entry i lies strictly inside a subdirectory, below the root, for which P
\* holds.
Inside(i, P(_)) == \E a \in 2..(i - 1) : Ancestor(a, i) /\ P(a)

\* C6, as claimed: the callback is never invoked for an entry inside a
\* subdirectory named .git (skip on) or matching the ignore glob, at any
\* depth.
C6_ExcludedAtAnyDepth ==
    (variant = "rerun" /\ ctx = "change") => ~Inside(idx, ExcludedByBaseName)

\* C6, amended: the callback is never invoked for an entry inside the
\* directory <root>/.git (skip on) or inside a subdirectory, at any depth,
\* whose base name matches the ignore glob.
C6_ExcludedDirs ==
    (variant = "rerun" /\ ctx = "change") => ~Inside(idx, ExcludedDir)

\* C6 witness: a whole pass has ended without a callback although a file
\* inside an ignored directory two levels down was modified before it.
C6_Witness ==
    /\ variant = "rerun" /\ pc = "walk" /\ idx = Len(tree) + 1
    /\ cbInPass = 0 /\ ~modInPass /\ burst >= 1
    /\ \E f \in Files :
        /\ mtime[f] > last
        /\ \E a \in 2..(f - 1) :
            Ancestor(a, f) /\ ExcludedDir(a) /\ tree[a].depth = 2

C8_InstallFailsOnOutputOrExit ==
    \A k \in InstallRun :
        (stagesRun[k].exit # 0 \/ stagesRun[k].out # "")
            => ~(pc = "send" /\ sig) /\ sent # <<TRUE>>

\* C9: in part_000 the output of a failing install is printed exactly when it
\* differs from the output of the failed install of the run before.
C9_RepeatedOutputNotPrinted ==
    variant = "part000" =>
        \A k \in InstallRun :
            stagesRun[k].out # ""
                => (stagesRun[k].printed <=> stagesRun[k].out # prevFail)

\* C10: when the program has ended, no supervised child is alive.
C10_NoChildLeftAtExit == pc = "exit" => Alive = {}

\* C11: a change notification is only ever made for an entry that was written
\* after the pipeline run before it had begun: once a change has been
\* reported and last set, no later pass reports anything until a watched
\* entry is written again, and no edit is reported twice.
C11_ReportedOnce ==
    [][(ctx # "change" /\ ctx' = "change") => idx \in pending]_vars

\* C11 witness: a file was written, the callback has run for it, and a later
\* pass has gone through every entry without a callback.
C11_Witness ==
    /\ pc = "walk" /\ idx = Len(tree) + 1
    /\ cbInPass = 0 /\ pending = {}
    /\ \E f \in Files : mtime[f] > 0

\* C12: when starting the new instance fails the loop tracks no instance and
\* is back at the receive; from there it moves only on a received signal
\* with relaunch = true, and then straight to a launch attempt, without
\* signalling, killing or waiting on any process.
C12_FailedStart ==
    [][/\ (ctlpc = "start" /\ ctlpc' = "recv" /\ Len(procs') = Len(procs))
            => proc' = 0
       /\ (ctlpc = "recv" /\ proc = 0 /\ ctlpc' \notin {"recv", "dead"})
            => /\ pc = "send" /\ sig /\ sent' = Append(sent, TRUE)
               /\ ctlpc' = "start" /\ procs' = procs]_vars

\* C12 witness: a child had been started, a later start has failed, and on
\* the next signal the loop is at once about to launch again.
C12_Witness ==
    /\ ctlpc = "start" /\ proc = 0
    /\ Len(procs) >= 1

\* A step that ends a scan pass in which there was no callback and during
\* which nothing was written.
QuietPassEnds ==
    /\ pc = "walk" /\ idx <= Len(tree)
    /\ pc' = "walk" /\ idx' = Len(tree) + 1
    /\ cbInPass' = 0 /\ ~modInPass'

\* C13: a modification of a dependency's source file is detected like one of
\* the target's own: when a pass ends in which there was no callback and
\* during which nothing was written, no dependency file is newer than last.
C13_DependencyWatched ==
    [][QuietPassEnds => \A d \in DOMAIN dep_mtime : dep_mtime[d] <= last]_vars

\* C14: a RestartSignal is taken only by a loop that is idle at its receive,
\* having processed the one before, and it is the very value the coordinator
\* is offering; while the coordinator's send is not accepted the coordinator
\* does nothing else: it runs no stage and offers no other signal.
C14_OneSignalInFlight ==
    [][/\ (relaunch' # relaunch \/ (sent' # sent /\ sent' # << >>))
            => /\ ctlpc = "recv" /\ pc = "send"
               /\ relaunch' = sig /\ sent' = Append(sent, sig)
       /\ (pc = "send" /\ sent' = sent)
            => /\ pc' = "send" /\ sig' = sig
               /\ stagesRun' = stagesRun /\ relaunch' = relaunch]_vars

\* C14 witness: the coordinator is blocked in its send while the loop is
\* still busy with the signal before.
C14_Witness ==
    /\ pc = "send"
    /\ ctlpc \in {"signal", "kill", "wait", "start"}

\* The loop is terminating the instance it tracks; the loop has gone on to the
\* relaunch step or to the next receive (or the program has ended).
Terminating == ctlpc \in {"signal", "kill", "wait"}
Proceeded == ctlpc \in {"start", "recv", "dead"}

\* C15, as claimed: once the loop has received a signal while an instance is
\* tracked it gets, whatever the instance does, to the relaunch step or the
\* next receive.
C15_AlwaysProceeds == Terminating ~> Proceeded

\* C15, amended: once the loop has received a signal while an instance is
\* tracked it gets to the relaunch step or the next receive unless it waits
\* for ever on an instance that took the interrupt and does not exit; when
\* the interrupt could not be delivered the instance is killed and the loop
\* always gets there.
C15_ProceedsIfChildExits ==
    /\ Terminating ~> (Proceeded \/ []WaitingOnLiveChild)
    /\ (ctlpc = "kill") ~> Proceeded

\* C15 witness: the instance tracked when the signal came has been terminated
\* and waited on, and the loop is at the relaunch step.
C15_Witness ==
    /\ ctlpc = "start" /\ proc # 0
    /\ procs[proc] = Reaped

\* C16: once the loop has processed a signal with relaunch = false it tracks
\* no instance, and it never interrupts, kills or waits on an instance that
\* it has waited on before.
C16_HandleClearedAfterStop ==
    /\ (ctlpc = "recv" /\ ~relaunch) => proc = 0
    /\ ctlpc \in {"signal", "kill", "wait"} => procs[proc] # Reaped

\* C17: on a signal received while an instance is tracked the loop first
\* requests the interrupt; it calls Kill exactly when the interrupt returned
\* an error; and in either case, whatever relaunch is, it leaves the wait
\* only when Wait has returned for the instance.
C17_InterruptKillWait ==
    /\ [](ctlpc = "kill" => steps = <<"interrupt failed">>)
    /\ [](ctlpc = "wait" =>
            steps \in {<<"interrupt">>, <<"interrupt failed", "kill">>})
    /\ [][/\ (sent' # sent /\ sent' # << >> /\ proc # 0)
               => ctlpc' = "signal"
          /\ (ctlpc = "wait" /\ ctlpc' \notin {"wait", "dead"})
               => /\ procs[proc] # Running /\ procs'[proc] = Reaped
                  /\ ctlpc' = (IF relaunch THEN "start" ELSE "recv")]_vars

\* C17 witness: on a signal with relaunch = false the interrupt has failed,
\* the instance has been killed, and the loop is in its wait.
C17_Witness ==
    /\ ctlpc = "wait" /\ ~relaunch
    /\ steps = <<"interrupt failed", "kill">>
    /\ procs[proc] = Zombie

\* C18: an error that filepath.Walk meets at an entry does not end the
\* program: no step of the walk is the program's last.
C18_WalkErrorsSwallowed == [][pc = "walk" => pc' # "exit"]_vars

\* C19: only directories are excluded: a step of the walk that visits a file
\* reports it when it is newer than last, and otherwise goes on to the entry
\* right after it, whatever the file's base name.
C19_OnlyDirectoriesExcluded ==
    [][(/\ pc = "walk" /\ idx <= Len(tree) /\ ~tree[idx].dir
        /\ pc' # "exit" /\ <<pc, idx>>' # <<pc, idx>>)
          => IF Changed(idx) THEN ctx' = "change" ELSE idx' = idx + 1]_vars

\* C20: no edit is lost: while the scanner is walking or sleeping, every file
\* outside the excluded directories that was written since the latest
\* pipeline run began is newer than last, so that a pass will report it and
\* a run will follow.
C20_NoEditLost ==
    pc = "walk" =>
        \A f \in pending : ~Inside(f, ExcludedDir) => mtime[f] > last

====
